---- MODULE Spec2Model ----
(***************************************************************************)
(* A model of council.rs: the constraint selection (select_constraints),   *)
(* the executor adapter (run_claude) and the orchestration in main: the    *)
(* preflight exits, the spawn loop, the member tasks reporting through a   *)
(* bounded mpsc channel, the collection loop, the sort, the --all          *)
(* presentation and the synthesis call.                                    *)
(*                                                                         *)
(* Strings are sequences of pieces [s, v, n]: s names the fragment, v is   *)
(* its numeric payload (a formatted integer, an output's identity) and n   *)
(* its length in bytes.  The task string is a sequence of the UTF-8 widths *)
(* of its characters, which is what slicing by byte offset depends on.     *)
(***************************************************************************)
EXTENDS Integers, Sequences, FiniteSets, TLC

VARIABLES
    args,             \* Args::parse(): task, num, timeout, model, no_synthesize, all, install
    pc,               \* position of main
    exit_code,        \* NoExit while the process runs, then its exit status
    preflight_checks, \* the outcomes of the runs of `which claude`, in order
    constraints,      \* select_constraints(args.num)
    chan,             \* the mpsc channel: cap, queue, senders (live tx handles), created
    spawn_i,          \* index of the spawn loop
    members,          \* the spawned tasks, by slot: state, child, calls, result, text
    outputs,          \* Vec<(usize, String, String)> of main
    stdout,           \* the result-bearing lines printed by main, in order
    synth,            \* the synthesis call: state, child, calls, prompt, result
    sel_n,            \* selection harness: requested n
    sel_perm,         \* selection harness: outcome of the shuffle
    sel_out,          \* selection harness: select_constraints(sel_n) once pc = "harness_done"
    run               \* executor harness: one call of run_claude: state, outcome, timeout, child, result

vars == <<args, pc, exit_code, preflight_checks, constraints, chan, spawn_i,
          members, outputs, stdout, synth, sel_n, sel_perm, sel_out, run>>

mainVars == <<args, pc, exit_code, preflight_checks, constraints, chan, spawn_i,
              members, outputs, stdout, synth>>

selVars == <<sel_n, sel_perm, sel_out, run>>

(***************************************************************************)
(* Bounds of the model.                                                    *)
(***************************************************************************)
MaxNum == 3          \* --num ranges over 0..MaxNum in the orchestration
MaxSelectN == 27     \* n ranges over 0..MaxSelectN in the selection harness
MaxRot == 1          \* shuffle outcomes: rotations by 0..MaxRot
MaxLiveNum == 2      \* values of --num in the runs checked for termination

Min(a, b) == IF a < b THEN a ELSE b

None == "None"
NoExit == 0 - 1

(***************************************************************************)
(* Strings.                                                                *)
(***************************************************************************)
Piece(s, v, n) == [s |-> s, v |-> v, n |-> n]
Lit(s, n) == <<Piece(s, 0, n)>>

RECURSIVE Digits(_)
Digits(k) == IF k < 10 THEN 1 ELSE 1 + Digits(k \div 10)

\* Display of an integer inside format!
Num(k) == <<Piece("int", k, Digits(k))>>

\* str::to_uppercase of a lens name (ASCII, so the length is kept)
ToUppercase(name) == [k \in 1..Len(name) |-> Piece("upper:" \o name[k].s, name[k].v, name[k].n)]

(***************************************************************************)
(* The catalog.                                                            *)
(***************************************************************************)
\* A lens: its name and its prompt (n and m bytes long) and its mandatory flag
Constraint(name, n, m, mandatory) ==
    [name |-> Lit(name, n), prompt |-> Lit("prompt:" \o name, m), mandatory |-> mandatory]

CONSTRAINTS ==
    << Constraint("the_goal_goldratt", 17, 846, TRUE),
       Constraint("urgency_musk", 12, 414, TRUE),
       Constraint("complexity_knuth", 16, 497, FALSE),
       Constraint("types_czaplicki", 15, 385, FALSE),
       Constraint("errors_dijkstra", 15, 488, FALSE),
       Constraint("simplicity_hickey", 17, 350, FALSE),
       Constraint("waste_ohno", 10, 398, FALSE),
       Constraint("devex_spolsky", 13, 364, FALSE),
       Constraint("tests_beck", 10, 364, FALSE),
       Constraint("taste_torvalds", 14, 367, FALSE),
       Constraint("pragmatic_carmack", 17, 541, FALSE),
       Constraint("refactor_fowler", 15, 334, FALSE),
       Constraint("firstprinciples_feynman", 23, 384, FALSE),
       Constraint("delete_muratori", 15, 670, FALSE),
       Constraint("crash_armstrong", 15, 666, FALSE),
       Constraint("data_acton", 10, 682, FALSE) >>

IsMandatory(c) == c.mandatory
IsOther(c) == ~c.mandatory

\* The whole of the shuffled sequence taken
TakeAll(s, k) == s

\* Iterator::take
Take(s, k) == SubSeq(s, 1, Min(k, Len(s)))

\* The outcomes of shuffle the model draws from: the rotations of 1..m by
\* 0..MaxRot, the even ones read backwards.
Rotation(m, r, rev) ==
    [k \in 1..m |-> IF rev THEN ((m + r - k) % m) + 1 ELSE ((r + k - 1) % m) + 1]

ShufflePerms(m) == {Rotation(m, r, r % 2 = 0) : r \in 0..Min(MaxRot, m - 1)}

\* shuffled.shuffle(&mut rng), the permutation drawn being perm
Shuffle(s, perm) == [k \in 1..Len(s) |-> s[perm[k]]]

\* The optional lenses taken without the filter
OthersUnfiltered == CONSTRAINTS

Mandatory == SelectSeq(CONSTRAINTS, IsMandatory)
Others == SelectSeq(CONSTRAINTS, IsOther)

\* A selection cut down to the n requested
SelectConstraintsClamped(n, perm) ==
    Take(Mandatory \o Shuffle(Others, perm), n)

SelectConstraints(n, perm) ==
    LET selected == Mandatory
    IN  IF n > Len(selected)
        THEN LET remaining == n - Len(selected)
                 shuffled == Shuffle(Others, perm)
             IN  selected \o Take(shuffled, remaining)
        ELSE selected

(***************************************************************************)
(* The task string and the header's preview of it.                         *)
(***************************************************************************)
\* A string of `ascii` one-byte characters followed by `wide` characters of
\* `width` bytes each
Str(ascii, wide, width) == [k \in 1..ascii |-> 1] \o [k \in 1..wide |-> width]

RECURSIVE ByteLen(_)
ByteLen(chars) == IF chars = <<>> THEN 0 ELSE Head(chars) + ByteLen(Tail(chars))

\* str::is_char_boundary
IsCharBoundary(chars, idx) ==
    \E k \in 0..Len(chars) : ByteLen(SubSeq(chars, 1, k)) = idx

TASK_PREVIEW_BYTES == 50

\* &task[..task.len().min(50)] : the slice exists when its end is a character
\* boundary, and indexing panics otherwise
PreviewEnd(chars) == Min(ByteLen(chars), TASK_PREVIEW_BYTES)
PreviewOk(chars) == IsCharBoundary(chars, PreviewEnd(chars))

\* The task inside a formatted string
TaskText(chars) == <<Piece("task", Len(chars), ByteLen(chars))>>

(***************************************************************************)
(* Prompt Builder.                                                         *)
(***************************************************************************)
PieceLen(text) == LET RECURSIVE Sum(_)
                      Sum(t) == IF t = <<>> THEN 0 ELSE Head(t).n + Sum(Tail(t))
                  IN  Sum(text)

create_prompt(constraint, task, num_members) ==
    Lit("You are a council member ... There are ", 73) \o Num(num_members)
    \o Lit(" council members, each with different orthogonal constraints.", 63)
    \o constraint.prompt
    \o Lit("YOUR TASK:", 13) \o TaskText(task)
    \o Lit("YOUR OUTPUT REQUIREMENTS ... labeled [", 158) \o constraint.name
    \o Lit("] ... you're doing it WRONG.", 283)

\* A block that leaves out the text of the analysis
AnalysisBlockHeaderOnly(o) ==
    Lit("=== MEMBER #", 198) \o Num(o[1] + 1) \o Lit(": ", 2) \o ToUppercase(o[2])
    \o Lit("===", 192)

\* One analysis block of the synthesis prompt
AnalysisBlock(o) ==
    Lit("=== MEMBER #", 198) \o Num(o[1] + 1) \o Lit(": ", 2) \o ToUppercase(o[2])
    \o Lit("===", 192) \o o[3]

RECURSIVE Join(_, _)
Join(blocks, sep) ==
    IF blocks = <<>> THEN <<>>
    ELSE IF Len(blocks) = 1 THEN blocks[1]
    ELSE blocks[1] \o sep \o Join(Tail(blocks), sep)

create_synthesis_prompt(outs, task) ==
    LET analyses == Join([k \in 1..Len(outs) |-> AnalysisBlock(outs[k])], Lit("\n\n", 2))
    IN  Lit("You are a master synthesizer analyzing insights from ", 53) \o Num(Len(outs))
        \o Lit(" council members ... ORIGINAL TASK:", 174) \o TaskText(task)
        \o Lit("COUNCIL ANALYSES:", 20) \o analyses
        \o Lit("YOUR SYNTHESIS REQUIREMENTS ...", 930)

(***************************************************************************)
(* Analysis Executor Adapter: run_claude.                                  *)
(***************************************************************************)
MAX_OUTPUT_BYTES == 500000

\* The first k bytes of a byte string
RECURSIVE BytePrefix(_, _)
BytePrefix(bytes, k) ==
    IF k = 0 \/ bytes = <<>> THEN <<>>
    ELSE IF Head(bytes).n <= k
         THEN <<Head(bytes)>> \o BytePrefix(Tail(bytes), k - Head(bytes).n)
         ELSE <<Piece(Head(bytes).s, Head(bytes).v, k)>>

\* Bytes of process output.  Besides ASCII data (any other piece), a byte
\* string may hold a run of characters of v bytes each ("wide", and "U+FFFD"
\* with v = 3), whose last character is incomplete when n is no multiple of
\* v, and a run of n bytes that are valid nowhere in UTF-8 ("bad").
Ascii(id, n) == IF n = 0 THEN <<>> ELSE <<Piece("stdout", id, n)>>
Wide(w, n) == IF n = 0 THEN <<>> ELSE <<Piece("wide", w, n)>>
Bad(n) == IF n = 0 THEN <<>> ELSE <<Piece("bad", 0, n)>>

REPLACEMENT_CHARACTER_BYTES == 3
Replacement(count) ==
    IF count = 0 THEN <<>>
    ELSE <<Piece("U+FFFD", REPLACEMENT_CHARACTER_BYTES, REPLACEMENT_CHARACTER_BYTES * count)>>

IsWide(p) == p.s \in {"wide", "U+FFFD"}

\* Adjacent runs of the same kind are one run
RECURSIVE Merged(_)
Merged(bytes) ==
    IF Len(bytes) < 2 THEN bytes
    ELSE LET a == bytes[1]
             b == bytes[2]
         IN  IF a.s = b.s /\ a.v = b.v /\ (IsWide(a) \/ a.s = "bad") /\ (~IsWide(a) \/ a.n % a.v = 0)
             THEN Merged(<<Piece(a.s, a.v, a.n + b.n)>> \o SubSeq(bytes, 3, Len(bytes)))
             ELSE <<a>> \o Merged(Tail(bytes))

\* String::from_utf8_lossy of one run: an incomplete character at its end and
\* every invalid byte become one U+FFFD each
LossyPiece(p) ==
    IF IsWide(p) THEN (IF p.n >= p.v THEN <<Piece(p.s, p.v, (p.n \div p.v) * p.v)>> ELSE <<>>)
                      \o (IF p.n % p.v # 0 THEN Replacement(1) ELSE <<>>)
    ELSE IF p.s = "bad" THEN Replacement(p.n)
    ELSE <<p>>

RECURSIVE LossyPieces(_)
LossyPieces(bytes) ==
    IF bytes = <<>> THEN <<>> ELSE LossyPiece(Head(bytes)) \o LossyPieces(Tail(bytes))

\* String::from_utf8_lossy(bytes).to_string()
FromUtf8Lossy(bytes) == Merged(LossyPieces(bytes))

Ok(text) == [ok |-> TRUE, val |-> text]
Err(text) == [ok |-> FALSE, val |-> text]

\* What the external process did: it ran to its end with an output, it could
\* not be started or waited for (an io::Error, io being its OS error code), or
\* the timeout elapsed first.
ExitedWith(status, out, err) ==
    [kind |-> "exited", stdout |-> out, stderr |-> err, io |-> 0, status |-> status]
Exited(out, err) == ExitedWith(0, out, err)
IoError(code) == [kind |-> "io_error", stdout |-> <<>>, stderr |-> <<>>, io |-> code, status |-> 0]
Elapsed == [kind |-> "elapsed", stdout |-> <<>>, stderr |-> <<>>, io |-> 0, status |-> 0]

\* The outcomes the model draws for a call with this prompt.  The simulated
\* capability answers a prompt with an output identified by the prompt's
\* length, so that different lenses get different outputs.
Outcomes(prompt) ==
    { Exited(<<Piece("stdout", PieceLen(prompt), 20)>>, <<>>), IoError(2), Elapsed }

\* "Capture both stdout and stderr"
Combined(output) ==
    IF output.stderr # <<>>
    THEN output.stdout \o Lit("\n[stderr]: ", 11) \o output.stderr
    ELSE output.stdout

\* The notice that states the cap
TruncationNotice ==
    Lit("\n\n[Output truncated at ", 23) \o Num(MAX_OUTPUT_BYTES \div 1000) \o Lit("KB]", 3)

\* The notice left out
CapOutputSilent(combined) ==
    FromUtf8Lossy(BytePrefix(combined, Min(PieceLen(combined), MAX_OUTPUT_BYTES)))

\* The text made from combined instead of truncated
CapOutputUncut(combined) ==
    IF PieceLen(combined) > MAX_OUTPUT_BYTES
    THEN FromUtf8Lossy(combined) \o TruncationNotice
    ELSE FromUtf8Lossy(combined)

\* The capping step: the cut to MAX_OUTPUT_BYTES, the conversion to a String
\* and the notice
CapOutput(combined) ==
    LET truncated == BytePrefix(combined, Min(PieceLen(combined), MAX_OUTPUT_BYTES))
        text == FromUtf8Lossy(truncated)
    IN  IF PieceLen(combined) > MAX_OUTPUT_BYTES
        THEN text \o TruncationNotice
        ELSE text

\* A match that takes a non-zero exit status for a failure
run_claudeStatusChecked(outcome, timeout_secs) ==
    IF outcome.kind = "exited" /\ outcome.status = 0
    THEN Ok(CapOutput(Combined(outcome)))
    ELSE IF outcome.kind = "exited"
    THEN Err(Lit("Process failed: ", 16) \o <<Piece("exit status", outcome.status, 14)>>)
    ELSE IF outcome.kind = "io_error"
    THEN Err(Lit("Process failed: ", 16) \o <<Piece("io::Error", outcome.io, 25)>>)
    ELSE Err(Lit("Timed out after ", 16) \o Num(timeout_secs) \o Lit("s", 1))

\* The match on the result of tokio::time::timeout(..).await
run_claude(outcome, timeout_secs) ==
    IF outcome.kind = "exited"
    THEN Ok(CapOutput(Combined(outcome)))
    ELSE IF outcome.kind = "io_error"
    THEN Err(Lit("Process failed: ", 16) \o <<Piece("io::Error", outcome.io, 25)>>)
    ELSE Err(Lit("Timed out after ", 16) \o Num(timeout_secs) \o Lit("s", 1))

\* Without kill_on_drop the process outlives the dropped future
ChildAfterOrphaned(outcome) ==
    IF outcome.kind = "exited" THEN "exited"
    ELSE IF outcome.kind = "io_error" THEN "none"
    ELSE "running"

\* What becomes of the child process: kill_on_drop(true) kills a child that
\* is still running when the future is dropped by the timeout
ChildAfter(outcome) ==
    IF outcome.kind = "exited" THEN "exited"
    ELSE IF outcome.kind = "io_error" THEN "none"
    ELSE "killed"

(***************************************************************************)
(* The run: main.                                                          *)
(***************************************************************************)
Some(chars) == [some |-> TRUE, chars |-> chars]
NoTask == [some |-> FALSE, chars |-> <<>>]

\* The inputs the model draws
\* no task; a short ASCII task; 49 ASCII bytes and then a two-byte character,
\* so that byte offset 50 falls inside that character
Tasks == { NoTask, Some(Str(3, 0, 1)), Some(Str(49, 1, 2)) }
Timeouts == {600}
Models == {None}

ArgsSet ==
    [task : Tasks, num : 0..MaxNum, timeout : Timeouts, model : Models,
     no_synthesize : BOOLEAN, all : BOOLEAN, install : BOOLEAN]

NoRun == [state |-> "none", outcome |-> Elapsed, timeout |-> 0, child |-> "none",
          result |-> Err(<<>>)]
NoChan == [created |-> FALSE, cap |-> 0, queue |-> <<>>, senders |-> 0, rx |-> FALSE]
NoSynth == [state |-> "idle", child |-> "none", calls |-> 0, prompt |-> <<>>,
            outcome |-> "none", result |-> Err(<<>>)]
Unspawned == [state |-> "unspawned", child |-> "none", calls |-> 0, prompt |-> <<>>,
              name |-> <<>>, outcome |-> "none", result |-> Err(<<>>), text |-> <<>>]

EXIT_FAILURE == 1
EXIT_SUCCESS == 0
EXIT_PANIC == 101

Init ==
    /\ args \in ArgsSet
    /\ pc = "start"
    /\ exit_code = NoExit
    /\ preflight_checks = <<>>
    /\ constraints = <<>>
    /\ chan = NoChan
    /\ spawn_i = 0
    /\ members = <<>>
    /\ outputs = <<>>
    /\ stdout = <<>>
    /\ synth = NoSynth
    /\ sel_n = 0
    /\ sel_perm = <<>>
    /\ sel_out = <<>>
    /\ run = NoRun

num_members == Len(constraints)
Slots == 0..(num_members - 1)

Exit(code) ==
    /\ pc' = "exited"
    /\ exit_code' = code

\* --install: install_globally() succeeds or fails, and the process exits
InstallMode ==
    /\ pc = "start"
    /\ args.install
    /\ \E ok \in BOOLEAN : Exit(IF ok THEN EXIT_SUCCESS ELSE EXIT_FAILURE)
    /\ UNCHANGED <<args, preflight_checks, constraints, chan, spawn_i, members,
                   outputs, stdout, synth>>
    /\ UNCHANGED selVars

\* "Ensure task was provided"
RequireTask ==
    /\ pc = "start"
    /\ ~args.install
    /\ IF args.task.some
       THEN pc' = "preflight" /\ UNCHANGED exit_code
       ELSE Exit(EXIT_FAILURE)
    /\ UNCHANGED <<args, preflight_checks, constraints, chan, spawn_i, members,
                   outputs, stdout, synth>>
    /\ UNCHANGED selVars

\* The outcomes of std::process::Command::new("which").arg("claude").output():
\* `which` could not be run, or it ran and exited with success or without
WhichOutcomes == [ran : BOOLEAN, success : BOOLEAN] \ {[ran |-> FALSE, success |-> TRUE]}

\* unwrap_or(true): a `which` that could not be run counts as found
ClaudeFoundByDefault(claude_check) ==
    IF claude_check.ran THEN claude_check.success ELSE TRUE

\* claude_check.map(|o| o.status.success()).unwrap_or(false)
ClaudeFound(claude_check) == IF claude_check.ran THEN claude_check.success ELSE FALSE

\* "Validate Claude CLI exists before spawning N processes"
Preflight ==
    /\ pc = "preflight"
    /\ \E claude_check \in WhichOutcomes :
         /\ preflight_checks' = Append(preflight_checks, claude_check)
         /\ IF ClaudeFound(claude_check)
            THEN pc' = "select" /\ UNCHANGED exit_code
            ELSE Exit(EXIT_FAILURE)
    /\ UNCHANGED <<args, constraints, chan, spawn_i, members, outputs, stdout, synth>>
    /\ UNCHANGED selVars

\* let constraints = select_constraints(args.num)
Select ==
    /\ pc = "select"
    /\ \E perm \in ShufflePerms(Len(Others)) :
         constraints' = SelectConstraints(args.num, perm)
    /\ pc' = "header"
    /\ UNCHANGED <<args, exit_code, preflight_checks, chan, spawn_i, members,
                   outputs, stdout, synth>>
    /\ UNCHANGED selVars

\* mpsc::channel(1), whatever the number of members
ChannelOfOne(buffer) ==
    [created |-> TRUE, cap |-> 1, queue |-> <<>>, senders |-> 1, rx |-> TRUE]

\* mpsc::channel(buffer) panics when buffer is 0
ChannelNew(buffer) ==
    [created |-> TRUE, cap |-> buffer, queue |-> <<>>, senders |-> 1, rx |-> TRUE]

\* The header, with the task preview, and the creation of the channel
Header ==
    /\ pc = "header"
    /\ IF PreviewOk(args.task.chars) /\ num_members > 0
       THEN /\ chan' = ChannelNew(num_members)
            /\ members' = [i \in Slots |-> Unspawned]
            /\ pc' = "spawn"
            /\ UNCHANGED exit_code
       ELSE /\ Exit(EXIT_PANIC)
            /\ UNCHANGED <<chan, members>>
    /\ UNCHANGED <<args, preflight_checks, constraints, spawn_i, outputs, stdout, synth>>
    /\ UNCHANGED selVars

Line(kind, id, name, text) == [kind |-> kind, id |-> id, name |-> name, text |-> text]

\* One turn of "Spawn all council members": tx.clone(), create_prompt, tokio::spawn
SpawnMember ==
    /\ pc = "spawn"
    /\ spawn_i < num_members
    /\ LET i == spawn_i
           constraint == constraints[i + 1]
       IN  /\ chan' = [chan EXCEPT !.senders = @ + 1]
           /\ members' = [members EXCEPT ![i] =
                  [@ EXCEPT !.state = "ready",
                            !.prompt = create_prompt(constraint, args.task.chars, num_members),
                            !.name = constraint.name]]
           /\ stdout' = Append(stdout, Line("spawning", i + 1, ToUppercase(constraint.name), <<>>))
    /\ spawn_i' = spawn_i + 1
    /\ UNCHANGED <<args, pc, exit_code, preflight_checks, constraints, outputs, synth>>
    /\ UNCHANGED selVars

\* The tx of main kept alive
TxKept(ch) == ch

\* The channel once a Sender is dropped
TxDropped(ch) == [ch EXCEPT !.senders = @ - 1]

\* drop(tx)
DropTx ==
    /\ pc = "spawn"
    /\ spawn_i = num_members
    /\ chan' = TxDropped(chan)
    /\ pc' = "collect"
    /\ UNCHANGED <<args, exit_code, preflight_checks, constraints, spawn_i, members,
                   outputs, stdout, synth>>
    /\ UNCHANGED selVars

\* The task of slot i is polled: run_claude starts the timer and the process
MemberInvoke(i) ==
    /\ members[i].state = "ready"
    /\ members' = [members EXCEPT ![i] =
           [@ EXCEPT !.state = "running", !.child = "running", !.calls = @ + 1]]
    /\ UNCHANGED <<args, pc, exit_code, preflight_checks, constraints, chan, spawn_i,
                   outputs, stdout, synth>>
    /\ UNCHANGED selVars

\* result.unwrap_or_default(): the failure leaves no trace in the text
MemberTextDefault(i, result) == IF result.ok THEN result.val ELSE <<>>

\* A placeholder that leaves out the reason
MemberTextNoReason(i, result) ==
    IF result.ok THEN result.val
    ELSE Lit("[Member ", 8) \o Num(i + 1) \o Lit(" error]", 7)

\* result.unwrap_or_else(|e| format!("[Member {} error: {}]", i + 1, e))
MemberText(i, result) ==
    IF result.ok THEN result.val
    ELSE Lit("[Member ", 8) \o Num(i + 1) \o Lit(" error: ", 8) \o result.val \o Lit("]", 1)

\* A task that calls run_claude again when the call failed
AfterCallRetry(result) == IF result.ok THEN "sending" ELSE "ready"

\* Where the task goes once run_claude has returned: on to tx.send, whatever
\* the result
AfterCall(result) == "sending"

\* run_claude of slot i returns, and the task computes its text
MemberComplete(i) ==
    /\ members[i].state = "running"
    /\ \E outcome \in Outcomes(members[i].prompt) :
         LET result == run_claude(outcome, args.timeout)
         IN  members' = [members EXCEPT ![i] =
                 [@ EXCEPT !.state = AfterCall(result), !.child = ChildAfter(outcome),
                           !.outcome = outcome.kind,
                           !.result = result, !.text = MemberText(i, result)]]
    /\ UNCHANGED <<args, pc, exit_code, preflight_checks, constraints, chan, spawn_i,
                   outputs, stdout, synth>>
    /\ UNCHANGED selVars

\* Sender::send completes when the queue has room (and fails when the
\* receiver is gone); it waits while the queue is full
HasRoom(ch) == Len(ch.queue) < ch.cap

\* A task that ends without sending when its call failed
SentUnlessFailed(queue, msg) ==
    IF Head(msg[3]).s = "[Member " THEN queue ELSE Append(queue, msg)

\* The queue after the task of slot i has sent its message
Sent(queue, msg) == Append(queue, msg)

\* tx.send((i, name, text)).await, after which the task ends and its tx is dropped
MemberSend(i) ==
    /\ members[i].state = "sending"
    /\ ~chan.rx \/ HasRoom(chan)
    /\ chan' = [chan EXCEPT !.queue = IF chan.rx
                                      THEN Sent(@, <<i, members[i].name, members[i].text>>)
                                      ELSE @,
                            !.senders = @ - 1]
    /\ members' = [members EXCEPT ![i] = [@ EXCEPT !.state = "done"]]
    /\ UNCHANGED <<args, pc, exit_code, preflight_checks, constraints, spawn_i,
                   outputs, stdout, synth>>
    /\ UNCHANGED selVars

\* rx.recv().await returns Some(message): one turn of the collection loop
Recv ==
    /\ pc = "collect"
    /\ chan.queue # <<>>
    /\ LET msg == Head(chan.queue)
       IN  /\ stdout' = Append(stdout, Line("completed", msg[1] + 1, ToUppercase(msg[2]), <<>>))
           /\ outputs' = Append(outputs, msg)
    /\ chan' = [chan EXCEPT !.queue = Tail(@)]
    /\ UNCHANGED <<args, pc, exit_code, preflight_checks, constraints, spawn_i, members, synth>>
    /\ UNCHANGED selVars

\* A recv that gives up as soon as the queue is empty
ClosedWhenEmpty(ch) == ch.queue = <<>>

\* rx.recv() returns None when the queue is empty and every Sender is dropped
Closed(ch) == ch.queue = <<>> /\ ch.senders = 0

\* The outputs left in arrival order
SortSkipped(s) == s

\* outputs.sort_by_key(|(id, _, _)| *id): a stable sort, here by insertion
RECURSIVE InsertByKey(_, _), SortByKey(_)
InsertByKey(sorted, x) ==
    IF sorted = <<>> THEN <<x>>
    ELSE IF x[1] < Head(sorted)[1] THEN <<x>> \o sorted
    ELSE <<Head(sorted)>> \o InsertByKey(Tail(sorted), x)

SortByKey(s) ==
    IF s = <<>> THEN <<>>
    ELSE InsertByKey(SortByKey(SubSeq(s, 1, Len(s) - 1)), s[Len(s)])

\* The lines printed for the members under --all
MemberLines(outs) ==
    [k \in 1..Len(outs) |-> Line("member", outs[k][1] + 1, ToUppercase(outs[k][2]), outs[k][3])]

\* The analyses printed whatever the flag
ShowAllAlways(a) == TRUE

\* if args.all
ShowAll(a) == a.all

\* The loop ends; the outputs are sorted and, under --all, printed
CollectEnd ==
    /\ pc = "collect"
    /\ Closed(chan)
    /\ LET sorted == SortByKey(outputs)
       IN  /\ outputs' = sorted
           /\ stdout' = Append(stdout, Line("all_completed", num_members, <<>>, <<>>))
                        \o (IF ShowAll(args) THEN MemberLines(sorted) ELSE <<>>)
    /\ pc' = "collected"
    /\ UNCHANGED <<args, exit_code, preflight_checks, constraints, chan, spawn_i,
                   members, synth>>
    /\ UNCHANGED selVars

\* The synthesis run whatever the flag
SynthesizeAlways(a) == TRUE

\* if !args.no_synthesize
Synthesize(a) == ~a.no_synthesize

\* "Run synthesis by default": the prompt is built and run_claude is called
SynthesisStart ==
    /\ pc = "collected"
    /\ Synthesize(args)
    /\ synth' = [synth EXCEPT !.state = "running", !.child = "running", !.calls = @ + 1,
                              !.prompt = create_synthesis_prompt(outputs, args.task.chars)]
    /\ stdout' = Append(stdout, Line("running_synthesis", 0, <<>>, <<>>))
    /\ pc' = "synthesis"
    /\ UNCHANGED <<args, exit_code, preflight_checks, constraints, chan, spawn_i,
                   members, outputs>>
    /\ UNCHANGED selVars

\* main returns and its rx goes out of scope
RxDropped(ch) == [ch EXCEPT !.rx = FALSE]

\* A failure printed as if it were the synthesis
SynthesisLineUnlabelled(result) == Line("synthesis", 0, <<>>, result.val)

\* match synthesis_result
SynthesisLine(result) ==
    IF result.ok THEN Line("synthesis", 0, <<>>, result.val)
    ELSE Line("synthesis_failed", 0, <<>>,
              Lit("[Synthesis failed: ", 19) \o result.val \o Lit("]", 1))

\* run_claude returns to main, the result is printed and main returns
SynthesisEnd ==
    /\ pc = "synthesis"
    /\ \E outcome \in Outcomes(synth.prompt) :
         LET result == run_claude(outcome, args.timeout)
         IN  /\ synth' = [synth EXCEPT !.state = "done", !.child = ChildAfter(outcome),
                                       !.outcome = outcome.kind, !.result = result]
             /\ stdout' = Append(stdout, SynthesisLine(result))
                          \o <<Line("total_time", 0, <<>>, <<>>)>>
    /\ Exit(EXIT_SUCCESS)
    /\ chan' = RxDropped(chan)
    /\ UNCHANGED <<args, preflight_checks, constraints, spawn_i, members, outputs>>
    /\ UNCHANGED selVars

\* --no-synthesize: "END OF COUNCIL" and main returns
NoSynthesisEnd ==
    /\ pc = "collected"
    /\ ~Synthesize(args)
    /\ stdout' = Append(stdout, Line("end_of_council", 0, <<>>, <<>>))
    /\ Exit(EXIT_SUCCESS)
    /\ chan' = RxDropped(chan)
    /\ UNCHANGED <<args, preflight_checks, constraints, spawn_i, members,
                   outputs, synth>>
    /\ UNCHANGED selVars

Next ==
    \/ InstallMode
    \/ RequireTask
    \/ Preflight
    \/ Select
    \/ Header
    \/ SpawnMember
    \/ DropTx
    \/ \E i \in DOMAIN members : MemberInvoke(i)
    \/ \E i \in DOMAIN members : MemberComplete(i)
    \/ \E i \in DOMAIN members : MemberSend(i)
    \/ Recv
    \/ CollectEnd
    \/ SynthesisStart
    \/ SynthesisEnd
    \/ NoSynthesisEnd

Spec == Init /\ [][Next]_vars

\* The runtime polls every task that can make progress, and every external
\* call returns or is cut off by its timeout: no enabled step waits forever
LiveInit == Init /\ args.num <= MaxLiveNum

LiveSpec == LiveInit /\ [][Next]_vars /\ WF_vars(Next)

(***************************************************************************)
(* The selection harness: select_constraints applied to every n of         *)
(* 0..MaxSelectN and every shuffle outcome of the model.                   *)
(***************************************************************************)
InitSelect ==
    /\ sel_n \in 0..MaxSelectN
    /\ sel_perm \in ShufflePerms(Len(Others))
    /\ sel_out = <<>>
    /\ run = NoRun
    /\ args = [task |-> NoTask, num |-> 0, timeout |-> 0, model |-> None,
               no_synthesize |-> FALSE, all |-> FALSE, install |-> FALSE]
    /\ pc = "harness"
    /\ exit_code = NoExit
    /\ preflight_checks = <<>>
    /\ constraints = <<>>
    /\ chan = NoChan
    /\ spawn_i = 0
    /\ members = <<>>
    /\ outputs = <<>>
    /\ stdout = <<>>
    /\ synth = NoSynth

CallSelect ==
    /\ pc = "harness"
    /\ sel_out' = SelectConstraints(sel_n, sel_perm)
    /\ pc' = "harness_done"
    /\ UNCHANGED <<sel_n, sel_perm, run>>
    /\ UNCHANGED <<args, exit_code, preflight_checks, constraints, chan, spawn_i,
                   members, outputs, stdout, synth>>

NextSelect == CallSelect

SpecSelect == InitSelect /\ [][NextSelect]_vars

(***************************************************************************)
(* The executor harness: one call of run_claude for every outcome and      *)
(* timeout of RunOutcomes and RunTimeouts.                                 *)
(***************************************************************************)
\* Outputs around the cap: short ones, ones of exactly the cap and above it,
\* ones that the cut splits inside a character, and ones that are no UTF-8
RunStdouts ==
    { <<>>,
      Ascii(1, 20),
      Wide(2, 40),
      Ascii(1, MAX_OUTPUT_BYTES),
      Ascii(1, MAX_OUTPUT_BYTES + 1),
      Ascii(1, MAX_OUTPUT_BYTES - 1) \o Wide(3, 3),
      Ascii(1, MAX_OUTPUT_BYTES - 2) \o Wide(4, 4),
      Wide(3, 600000),
      Bad(200000),
      Ascii(1, 10) \o Bad(MAX_OUTPUT_BYTES) }

RunStderrs == { <<>>, Ascii(2, 7), Ascii(2, MAX_OUTPUT_BYTES) }

RunOutcomes ==
    {ExitedWith(status, out, err) : status \in {0, 1}, out \in RunStdouts, err \in RunStderrs}
    \cup {IoError(2), IoError(13), Elapsed}

RunTimeouts == {0, 1, 600}

InitRun ==
    /\ run \in [state : {"start"}, outcome : RunOutcomes, timeout : RunTimeouts,
                 child : {"none"}, result : {Err(<<>>)}]
    /\ sel_n = 0
    /\ sel_perm = <<>>
    /\ sel_out = <<>>
    /\ args = [task |-> NoTask, num |-> 0, timeout |-> 0, model |-> None,
               no_synthesize |-> FALSE, all |-> FALSE, install |-> FALSE]
    /\ pc = "run_harness"
    /\ exit_code = NoExit
    /\ preflight_checks = <<>>
    /\ constraints = <<>>
    /\ chan = NoChan
    /\ spawn_i = 0
    /\ members = <<>>
    /\ outputs = <<>>
    /\ stdout = <<>>
    /\ synth = NoSynth

\* run_claude is called: the timer starts and the process is spawned
RunCall ==
    /\ run.state = "start"
    /\ run' = [run EXCEPT !.state = "called", !.child = "running"]
    /\ UNCHANGED <<sel_n, sel_perm, sel_out>>
    /\ UNCHANGED mainVars

\* The timed future resolves and run_claude returns
RunReturn ==
    /\ run.state = "called"
    /\ run' = [run EXCEPT !.state = "returned", !.child = ChildAfter(run.outcome),
                          !.result = run_claude(run.outcome, run.timeout)]
    /\ UNCHANGED <<sel_n, sel_perm, sel_out>>
    /\ UNCHANGED mainVars

NextRun == RunCall \/ RunReturn

SpecRun == InitRun /\ [][NextRun]_vars

(***************************************************************************)
(* The properties.                                                         *)
(***************************************************************************)
\* The collection loop has ended
AfterCollection == pc \in {"collected", "synthesis"} \/ (pc = "exited" /\ chan.created)

\* main has returned after the collection
RunComplete == pc = "exited" /\ chan.created

Failed(i) == members[i].state \in {"sending", "done"} /\ ~members[i].result.ok
Succeeded(i) == members[i].state \in {"sending", "done"} /\ members[i].result.ok
TimedOut(i) == Failed(i) /\ Head(members[i].result.val).s = "Timed out after "

\* The slots of the "completed" lines, in the order of arrival
ArrivalOrder == SelectSeq(stdout, LAMBDA l : l.kind = "completed")

ArrivedOutOfOrder ==
    \E j, k \in 1..Len(ArrivalOrder) : j < k /\ ArrivalOrder[j].id > ArrivalOrder[k].id

\* The slots of outputs that hold slot i
Holding(i) == {k \in 1..Len(outputs) : outputs[k][1] = i}

\* The result list that depends on the slots alone
InSlotOrder ==
    [k \in 1..num_members |-> <<k - 1, constraints[k].name, members[k - 1].text>>]

HasMarker(text, reason) ==
    /\ Len(text) >= 3 + Len(reason)
    /\ text[1].s = "[Member "
    /\ text[3].s = " error: "
    /\ SubSeq(text, 4, 3 + Len(reason)) = reason

\* C1: the synthesis call begins only once every selected slot's dispatch has
\* finished (its process no longer running, its task done) and its
\* MemberResult is in the collector's outputs.
C1_SynthesisAfterAllMembers ==
    synth.state # "idle" =>
        \A i \in Slots :
            /\ members[i].state = "done"
            /\ members[i].child # "running"
            /\ Holding(i) # {}

C1_Witness ==
    /\ pc = "synthesis"
    /\ synth.calls = 1
    /\ num_members = 3
    /\ ArrivedOutOfOrder
    /\ \E i \in Slots : TimedOut(i)

\* C2: when the collection loop has ended, outputs holds exactly one
\* MemberResult for each slot 0..num_members-1, whatever the outcomes and the
\* order of completion.
C2_OneResultPerSlot ==
    AfterCollection =>
        /\ Len(outputs) = num_members
        /\ DOMAIN members = Slots
        /\ \A i \in Slots : Cardinality(Holding(i)) = 1
        /\ \A k \in 1..Len(outputs) : outputs[k][1] \in Slots

C2_Witness ==
    /\ pc = "collected"
    /\ num_members = 3
    /\ ArrivedOutOfOrder
    /\ \E i, j, k \in Slots :
         /\ Succeeded(i)
         /\ TimedOut(j)
         /\ Failed(k) /\ ~TimedOut(k)

\* C3: the final result list is in ascending slot order and is the list that
\* the slots alone determine, whatever the order of arrival; the lines
\* presented under --all and the synthesis prompt are made from that list.
C3_SlotOrder ==
    AfterCollection =>
        /\ \A j, k \in 1..Len(outputs) : j < k => outputs[j][1] < outputs[k][1]
        /\ outputs = InSlotOrder
        /\ args.all => SelectSeq(stdout, LAMBDA l : l.kind = "member") = MemberLines(InSlotOrder)
        /\ synth.state # "idle" =>
               synth.prompt = create_synthesis_prompt(InSlotOrder, args.task.chars)

C3_Witness ==
    /\ RunComplete
    /\ num_members = 3
    /\ args.all
    /\ synth.state = "done"
    /\ ArrivalOrder[1].id = 3
    /\ ArrivalOrder[3].id = 1

\* C4: when a slot's dispatch fails or times out, the run still yields one
\* MemberResult per slot in slot order, the failed slot's text is the marker
\* with the failure reason, every successful slot's text is what its own call
\* returned, a process is killed only by its own timeout, and the run is not
\* aborted.
C4_FailureIsolation ==
    (AfterCollection /\ \E f \in Slots : Failed(f)) =>
        /\ Len(outputs) = num_members
        /\ \A i \in Slots :
             /\ outputs[i + 1][1] = i
             /\ members[i].calls = 1
             /\ Failed(i) => HasMarker(outputs[i + 1][3], members[i].result.val)
             /\ Succeeded(i) => outputs[i + 1][3] = members[i].result.val
             /\ members[i].child = "killed" => TimedOut(i)
             /\ Succeeded(i) => members[i].child = "exited"
        /\ pc = "exited" => exit_code = EXIT_SUCCESS

C4_Witness ==
    /\ RunComplete
    /\ num_members = 3
    /\ TimedOut(1)
    /\ Succeeded(0)
    /\ Succeeded(2)
    /\ ArrivalOrder[1].id = 2

\* C5: after the collection exactly one more executor call, the synthesis
\* call, is made when --no-synthesize is absent, and none when it is present;
\* no synthesis call is made before the collection has ended.
C5_OneSynthesisCall ==
    /\ synth.calls <= 1
    /\ ~AfterCollection => synth.calls = 0
    /\ (AfterCollection /\ args.no_synthesize) => synth.calls = 0
    /\ (RunComplete /\ ~args.no_synthesize) => synth.calls = 1
    /\ RunComplete => \A i \in Slots : members[i].calls = 1

C5_Witness ==
    /\ RunComplete
    /\ ~args.no_synthesize
    /\ synth.calls = 1
    /\ num_members = 3

\* The synthesis call has failed or timed out
SynthesisFailed == synth.state = "done" /\ ~synth.result.ok

FailureLabelled ==
    \E k \in 1..Len(stdout) :
        /\ stdout[k].kind = "synthesis_failed"
        /\ stdout[k].text =
               Lit("[Synthesis failed: ", 19) \o synth.result.val \o Lit("]", 1)

Presented(o) ==
    \E k \in 1..Len(stdout) :
        stdout[k].kind = "member" /\ stdout[k].id = o[1] + 1 /\ stdout[k].text = o[3]

\* C6 as stated: when the synthesis call fails or times out, the failure is
\* labelled and every collected MemberResult is presented in the output,
\* whatever the value of --all.
C6_Original ==
    (RunComplete /\ SynthesisFailed) =>
        /\ FailureLabelled
        /\ outputs = InSlotOrder
        /\ \A k \in 1..Len(outputs) : Presented(outputs[k])

\* C6, amended: when the synthesis call fails or times out, the failure is
\* labelled and the collected MemberResults are unchanged; they are presented
\* in the output when --all is set, and not presented when it is not.
C6_SynthesisFailureKeepsResults ==
    (RunComplete /\ SynthesisFailed) =>
        /\ FailureLabelled
        /\ ~\E k \in 1..Len(stdout) : stdout[k].kind = "synthesis"
        /\ outputs = InSlotOrder
        /\ args.all => \A k \in 1..Len(outputs) : Presented(outputs[k])
        /\ ~args.all => ~\E k \in 1..Len(outputs) : Presented(outputs[k])

C6_Witness ==
    /\ RunComplete
    /\ SynthesisFailed
    /\ args.all
    /\ num_members = 3
    /\ Head(synth.result.val).s = "Timed out after "
    /\ \E i \in Slots : Succeeded(i)

\* No executor dispatch, member or synthesis, was ever spawned
NoDispatch ==
    /\ synth.calls = 0
    /\ \A i \in DOMAIN members : members[i].state = "unspawned" /\ members[i].calls = 0
    /\ spawn_i = 0

PreflightFailed ==
    \E k \in 1..Len(preflight_checks) :
        ~(preflight_checks[k].ran /\ preflight_checks[k].success)

\* The preflight check happens at most once, and before the selection and
\* before any spawn
PreflightOnceAndFirst ==
    /\ Len(preflight_checks) <= 1
    /\ (constraints # <<>> \/ ~NoDispatch \/ chan.created) =>
           (Len(preflight_checks) = 1 /\ ~PreflightFailed)

\* C7 as stated: in a run where the task text is missing or the capability
\* is unreachable at preflight, the process exits with a nonzero code and no
\* dispatch is ever spawned; the preflight check happens once, before the
\* selection and before any spawn.
C7_Original ==
    /\ (~args.task.some \/ PreflightFailed) =>
           /\ NoDispatch
           /\ pc = "exited" => exit_code # EXIT_SUCCESS
    /\ PreflightOnceAndFirst

\* C7, amended: the same, for a run without --install; a run with --install
\* exits with the result of the installation (0 when it succeeds, also when
\* no task was given) and spawns no dispatch either.
C7_PreflightFailFast ==
    /\ (~args.task.some \/ PreflightFailed) =>
           /\ NoDispatch
           /\ (pc = "exited" /\ ~args.install) => exit_code # EXIT_SUCCESS
    /\ args.install => NoDispatch /\ preflight_checks = <<>>
    /\ PreflightOnceAndFirst

C7_Witness ==
    /\ pc = "exited"
    /\ ~args.install
    /\ args.task.some
    /\ preflight_checks = <<[ran |-> FALSE, success |-> FALSE]>>
    /\ exit_code = EXIT_FAILURE

PreflightPassed ==
    Len(preflight_checks) = 1 /\ preflight_checks[1].ran /\ preflight_checks[1].success

\* C8: every run that has a task text and passes the preflight check ends
\* with exit code 0, whatever the outcomes of the members and of the
\* synthesis.
C8_ExitZero ==
    (pc = "exited" /\ args.task.some /\ PreflightPassed) => exit_code = EXIT_SUCCESS

\* The lenses of a selection, by name
Names(sel) == [k \in 1..Len(sel) |-> sel[k].name[1].s]

Occurrences(sel, name) == Cardinality({k \in 1..Len(sel) : Names(sel)[k] = name})

\* C9: select_constraints(n) contains every mandatory lens of the catalog
\* exactly once and no lens twice, for every n and every shuffle.
C9_MandatoryOnceNoRepeats ==
    pc = "harness_done" =>
        /\ \A c \in 1..Len(CONSTRAINTS) :
             /\ Occurrences(sel_out, Names(CONSTRAINTS)[c]) <= 1
             /\ CONSTRAINTS[c].mandatory => Occurrences(sel_out, Names(CONSTRAINTS)[c]) = 1
        /\ \A k \in 1..Len(sel_out) : \E c \in 1..Len(CONSTRAINTS) : sel_out[k] = CONSTRAINTS[c]

C9_Witness ==
    /\ pc = "harness_done"
    /\ sel_n > Len(CONSTRAINTS)
    /\ Len(sel_out) = Len(CONSTRAINTS)
    /\ Names(sel_out)[3] = "data_acton"

\* C10: for every n up to the number of mandatory lenses, 0 and 1 included,
\* select_constraints(n) is the two mandatory lenses in catalog order,
\* whatever the shuffle: its size is 2, also when n is smaller.
C10_MandatoryAlone ==
    (pc = "harness_done" /\ sel_n <= 2) =>
        /\ Names(sel_out) = <<"the_goal_goldratt", "urgency_musk">>
        /\ sel_out = <<CONSTRAINTS[1], CONSTRAINTS[2]>>

C10_Witness ==
    /\ pc = "harness_done"
    /\ sel_n = 1
    /\ Len(sel_out) = 2
    /\ sel_perm[1] # 1

\* C11: when the timeout of a call elapses before the process returns, the
\* call returns the error "Timed out after <timeout>s", and in every state
\* from then on its process is killed, not running; for the member calls and
\* for the synthesis call.
C11_TimeoutKillsProcess ==
    /\ \A i \in DOMAIN members :
         members[i].outcome = "elapsed" =>
             /\ members[i].result =
                    [ok |-> FALSE,
                     val |-> Lit("Timed out after ", 16) \o Num(args.timeout) \o Lit("s", 1)]
             /\ members[i].child = "killed"
    /\ synth.outcome = "elapsed" =>
         /\ synth.result =
                [ok |-> FALSE,
                 val |-> Lit("Timed out after ", 16) \o Num(args.timeout) \o Lit("s", 1)]
         /\ synth.child = "killed"

C11_Witness ==
    /\ pc = "exited"
    /\ synth.outcome = "elapsed"
    /\ synth.child = "killed"
    /\ members[0].outcome = "elapsed"
    /\ members[0].child = "killed"
    /\ members[1].outcome = "exited"

\* The call of the harness has returned the output of a process that ran to
\* its end
Captured == run.state = "returned" /\ run.outcome.kind = "exited"

Cap == 500000
CutOfCombined == BytePrefix(Combined(run.outcome), Min(PieceLen(Combined(run.outcome)), Cap))
Notice == Lit("\n\n[Output truncated at ", 23) \o Num(500) \o Lit("KB]", 3)
OverCap == PieceLen(Combined(run.outcome)) > Cap

ValidUtf8(bytes) ==
    \A k \in 1..Len(bytes) :
        /\ bytes[k].s # "bad"
        /\ bytes[k].s \in {"wide", "U+FFFD"} => bytes[k].n % bytes[k].v = 0

\* C12 as stated: a combined output longer than the cap is returned as its
\* first cap bytes followed by the notice, and one of at most the cap is
\* returned whole with no notice.
C12_Original ==
    Captured =>
        /\ run.result.ok
        /\ OverCap => run.result.val = CutOfCombined \o Notice
        /\ ~OverCap => run.result.val = Combined(run.outcome)

\* C12, amended: the returned text is the first cap bytes of the combined
\* output (the whole of it when it is at most the cap) converted to a String
\* by from_utf8_lossy, followed by the notice exactly when the output is
\* longer than the cap; the conversion leaves valid UTF-8 as it is and puts
\* U+FFFD for every invalid sequence, a character split by the cut included.
C12_CapAndNotice ==
    Captured =>
        /\ run.result.ok
        /\ OverCap => run.result.val = FromUtf8Lossy(CutOfCombined) \o Notice
        /\ ~OverCap => run.result.val = FromUtf8Lossy(Combined(run.outcome))
        /\ ValidUtf8(CutOfCombined) => FromUtf8Lossy(CutOfCombined) = CutOfCombined
        /\ ~ValidUtf8(CutOfCombined) =>
               /\ FromUtf8Lossy(CutOfCombined) # CutOfCombined
               /\ \E k \in 1..Len(run.result.val) : run.result.val[k].s = "U+FFFD"

C12_Witness ==
    /\ Captured
    /\ OverCap
    /\ run.outcome.stdout = Ascii(1, Cap - 1) \o Wide(3, 3)
    /\ run.outcome.stderr = <<>>
    /\ run.result.val = Ascii(1, Cap - 1) \o Replacement(1) \o Notice

\* C13 as stated: the capping step applied to a text it produced yields that
\* text unchanged, for every combined output.
C13_Original ==
    Captured => CapOutput(run.result.val) = run.result.val

\* C13, amended: the same for every combined output that is valid UTF-8
\* (cut inside a character or not); an output with invalid bytes grows in
\* the conversion and is cut again by a second application.
C13_CapIdempotentOnUtf8 ==
    (Captured /\ ValidUtf8(Combined(run.outcome))) =>
        /\ CapOutput(run.result.val) = run.result.val
        /\ OverCap => PieceLen(run.result.val) > Cap

C13_Witness ==
    /\ Captured
    /\ run.outcome.stdout = Wide(3, 600000)
    /\ run.outcome.stderr = Ascii(2, 7)
    /\ PieceLen(run.result.val) > Cap
    /\ CapOutput(run.result.val) = run.result.val

\* The places of the prompt where text begins
Places(prompt, text) ==
    {k \in 1..(Len(prompt) - Len(text) + 1) : SubSeq(prompt, k, k + Len(text) - 1) = text}

Place(prompt, text) == CHOOSE k \in Places(prompt, text) : TRUE

\* C14 as stated: the synthesis prompt contains the number of results, the
\* task, and each result's lens name and full text exactly once, the results
\* in slot order.
C14_Original ==
    synth.state # "idle" =>
        /\ Places(synth.prompt, Num(Len(outputs))) # {}
        /\ Cardinality(Places(synth.prompt, TaskText(args.task.chars))) = 1
        /\ \A k \in 1..Len(outputs) :
             /\ Cardinality(Places(synth.prompt, outputs[k][2])) = 1
             /\ Cardinality(Places(synth.prompt, outputs[k][3])) = 1

\* C14, amended: the synthesis prompt contains the number of results, the
\* task, and for each result its member number, its lens name converted to
\* upper case (not the name as it is) and its full text, each exactly once,
\* the results in slot order.
C14_PromptHoldsEveryResult ==
    synth.state # "idle" =>
        /\ synth.prompt[2] = Piece("int", num_members, 1)
        /\ Cardinality(Places(synth.prompt, TaskText(args.task.chars))) = 1
        /\ \A k \in 1..Len(outputs) :
             LET name == [j \in 1..Len(outputs[k][2]) |->
                            Piece("upper:" \o outputs[k][2][j].s, 0, outputs[k][2][j].n)]
             IN  /\ Places(synth.prompt, outputs[k][2]) = {}
                 /\ Cardinality(Places(synth.prompt, name)) = 1
                 /\ Cardinality(Places(synth.prompt, outputs[k][3])) = 1
                 /\ outputs[k][3] = members[k - 1].text
                 /\ Place(synth.prompt, name) < Place(synth.prompt, outputs[k][3])
                 /\ synth.prompt[Place(synth.prompt, name) - 2] = Piece("int", k, 1)
                 /\ k < Len(outputs) =>
                        Place(synth.prompt, outputs[k][3]) < Place(synth.prompt, outputs[k + 1][3])

C14_Witness ==
    /\ pc = "synthesis"
    /\ num_members = 3
    /\ ArrivalOrder[1].id = 3
    /\ Failed(1)
    /\ Succeeded(2)
    /\ Names(constraints)[3] = "data_acton"

MemberLineAt == {k \in 1..Len(stdout) : stdout[k].kind = "member"}

\* C15: with --all, every MemberResult's full text is printed, one entry per
\* slot in ascending slot order, after every member has completed and before
\* the synthesis call is issued; without --all no MemberResult text is printed.
C15_AllFlag ==
    /\ ~AfterCollection => MemberLineAt = {}
    /\ (AfterCollection /\ args.all) =>
         /\ SelectSeq(stdout, LAMBDA l : l.kind = "member") =
                [k \in 1..num_members |->
                    [kind |-> "member", id |-> k,
                     name |-> <<Piece("upper:" \o constraints[k].name[1].s, 0, constraints[k].name[1].n)>>,
                     text |-> members[k - 1].text]]
         /\ \A m \in MemberLineAt :
              /\ Cardinality({c \in 1..(m - 1) : stdout[c].kind = "completed"}) = num_members
              /\ \A r \in 1..Len(stdout) :
                   stdout[r].kind \in {"running_synthesis", "synthesis", "synthesis_failed"} => m < r
    /\ (pc = "collected" /\ args.all) => (synth.calls = 0 /\ Cardinality(MemberLineAt) = num_members)
    /\ ~args.all =>
         /\ MemberLineAt = {}
         /\ \A k \in 1..Len(stdout) : \A i \in DOMAIN members :
              members[i].state \in {"sending", "done"} => stdout[k].text # members[i].text

C15_Witness ==
    /\ pc = "collected"
    /\ args.all
    /\ ~args.no_synthesize
    /\ num_members = 3
    /\ Cardinality(MemberLineAt) = 3
    /\ ArrivedOutOfOrder

\* C16: the executor is invoked exactly once for each selected slot, also
\* when that invocation fails or times out: the number of member invocations
\* is the length of the selection.
C16_NoRetry ==
    /\ \A i \in DOMAIN members :
         /\ members[i].calls <= 1
         /\ members[i].state \in {"running", "sending", "done"} => members[i].calls = 1
         /\ members[i].state \in {"unspawned", "ready"} => members[i].calls = 0
    /\ AfterCollection =>
         Cardinality({i \in DOMAIN members : members[i].calls = 1}) = Len(constraints)

C16_Witness ==
    /\ RunComplete
    /\ num_members = 3
    /\ \A i \in Slots : Failed(i) /\ members[i].calls = 1
    /\ TimedOut(2)

CATALOG_SIZE == 16

\* C17: for every n above the number of mandatory lenses, select_constraints(n)
\* is the mandatory lenses in catalog order followed by distinct optional
\* lenses, min(n, 16) lenses in all: n of them for n up to 16, 16 for larger n.
C17_MandatoryThenOptional ==
    (pc = "harness_done" /\ sel_n > 2) =>
        /\ SubSeq(Names(sel_out), 1, 2) = <<"the_goal_goldratt", "urgency_musk">>
        /\ \A k \in 3..Len(sel_out) :
             /\ ~sel_out[k].mandatory
             /\ \E c \in 3..CATALOG_SIZE : sel_out[k] = CONSTRAINTS[c]
             /\ \A j \in 3..Len(sel_out) : j # k => Names(sel_out)[j] # Names(sel_out)[k]
        /\ sel_n <= CATALOG_SIZE => Len(sel_out) = sel_n
        /\ sel_n > CATALOG_SIZE => Len(sel_out) = CATALOG_SIZE

C17_Witness ==
    /\ pc = "harness_done"
    /\ sel_n = 5
    /\ Len(sel_out) = 5
    /\ Names(sel_out)[3] = "types_czaplicki"
    /\ Names(sel_out)[5] = "simplicity_hickey"

\* The reason of the failure of slot i, as run_claude words it
Reason(i) ==
    IF members[i].outcome = "elapsed"
    THEN Lit("Timed out after ", 16) \o Num(args.timeout) \o Lit("s", 1)
    ELSE Lit("Process failed: ", 16) \o <<Piece("io::Error", 2, 25)>>

FailureResult(i) ==
    << i, <<Piece(Names(constraints)[i + 1], 0, constraints[i + 1].name[1].n)>>,
       Lit("[Member ", 8) \o <<Piece("int", i + 1, 1)>> \o Lit(" error: ", 8) \o Reason(i)
       \o Lit("]", 1) >>

\* C18: the MemberResult of a dispatch that failed or timed out has the
\* dispatch's own slot index and lens name, and its text is the placeholder
\* "[Member <slot + 1> error: <reason>]"; in the channel and in outputs.
C18_FailurePlaceholder ==
    /\ \A k \in 1..Len(chan.queue) :
         Failed(chan.queue[k][1]) => chan.queue[k] = FailureResult(chan.queue[k][1])
    /\ \A k \in 1..Len(outputs) :
         Failed(outputs[k][1]) => outputs[k] = FailureResult(outputs[k][1])
    /\ AfterCollection => \A i \in Slots : Failed(i) => outputs[i + 1] = FailureResult(i)

C18_Witness ==
    /\ pc = "collected"
    /\ num_members = 3
    /\ TimedOut(0)
    /\ Failed(2) /\ ~TimedOut(2)
    /\ Succeeded(1)
    /\ ArrivalOrder[1].id = 3

\* C19: every run that starts dispatching leaves the collection loop, having
\* consumed one completion per slot, and reaches the end of the run with
\* exit code 0 (after the synthesis when it is enabled).
C19_Termination ==
    (pc = "spawn") ~>
        (/\ pc = "exited"
         /\ exit_code = EXIT_SUCCESS
         /\ Len(ArrivalOrder) = num_members
         /\ Len(outputs) = num_members
         /\ (~args.no_synthesize => synth.state = "done"))

C19_Witness ==
    /\ pc = "exited"
    /\ ~chan.rx
    /\ chan.senders = 0
    /\ Len(ArrivalOrder) = num_members
    /\ ArrivedOutOfOrder
    /\ synth.state = "done"
    /\ \A i \in Slots : Failed(i)

\* C20: the channel is created with a capacity that is the number of
\* dispatches and is positive (the selection is never empty), the queue never
\* holds more than the capacity, a task that has to send always finds room
\* and the receiver alive.
C20_ChannelNeverBlocks ==
    /\ pc \notin {"start", "preflight", "select"} /\ preflight_checks # <<>> /\ pc # "exited"
           => num_members > 0
    /\ (pc = "exited" /\ exit_code = EXIT_PANIC) => num_members > 0
    /\ chan.created =>
         /\ chan.cap = num_members
         /\ chan.cap > 0
         /\ chan.cap = Cardinality(DOMAIN members)
         /\ Len(chan.queue) <= chan.cap
    /\ \A i \in DOMAIN members :
         /\ members[i].state = "sending" => (Len(chan.queue) < chan.cap /\ chan.rx)
         /\ members[i].state # "done" => chan.rx

C20_Witness ==
    /\ pc = "collect"
    /\ args.num = 0
    /\ chan.cap = 2
    /\ Len(chan.queue) = 2
    /\ outputs = <<>>


\* C21: a run that has a task text and found the capability is never aborted
\* by the printing of the header's task preview, whatever the task text: it
\* ends only after it has created the channel and spawned one dispatch per
\* selected lens.
C21_PreviewNeverAborts ==
    (pc = "exited" /\ args.task.some /\ PreflightPassed) =>
        /\ exit_code # EXIT_PANIC
        /\ chan.created
        /\ spawn_i = num_members
        /\ \A i \in Slots : members[i].calls = 1


\* The call of the harness has returned
Returned == run.state = "returned"

\* The text a member task makes of the call's result
RunText == MemberText(0, run.result)

IsPlaceholder(text) == text # <<>> /\ Head(text).s = "[Member "

\* C22: a call whose process was started and ran to completion returns a
\* success with the captured output whatever the exit status, and the member
\* text is that output; the result is a failure, and the member text a
\* failure placeholder, exactly when the process could not be started or
\* waited for or the timeout elapsed.
C22_ExitStatusIgnored ==
    Returned =>
        /\ run.outcome.kind = "exited" =>
              /\ run.result = Ok(CapOutput(Combined(run.outcome)))
              /\ run.result = run_claude(ExitedWith(0, run.outcome.stdout, run.outcome.stderr),
                                         run.timeout)
              /\ RunText = run.result.val
              /\ ~IsPlaceholder(RunText)
        /\ ~run.result.ok <=> run.outcome.kind \in {"io_error", "elapsed"}
        /\ IsPlaceholder(RunText) <=> run.outcome.kind \in {"io_error", "elapsed"}

C22_Witness ==
    /\ Returned
    /\ run.outcome.kind = "exited"
    /\ run.outcome.status = 1
    /\ run.outcome.stdout = Ascii(1, 20)
    /\ run.outcome.stderr = Ascii(2, 7)
    /\ run.result.ok
    /\ RunText = Ascii(1, 20) \o Lit("\n[stderr]: ", 11) \o Ascii(2, 7)

====
